---- MODULE Spec2Model ----
(***************************************************************************)
(* Entro.py (src/entro.py): mask-based candidate enumeration and cracking. *)
(*                                                                         *)
(* Data representation.  A Python str is a sequence of one-character       *)
(* strings ("ab" is <<"a","b">>), so that split, join and len are computed *)
(* character by character.  A Python dict is a sequence of <<key, value>>  *)
(* pairs with distinct keys, in insertion order (Python dicts iterate in   *)
(* insertion order and keep a key's position when it is reassigned).       *)
(* A Python list is a sequence, a Python set is a set.                     *)
(***************************************************************************)
EXTENDS Integers, Sequences, FiniteSets, TLC

(* ------------------------------ bounds --------------------------------- *)
\* number of characters of each string.* alphabet kept in the Class Registry
CharsPerClass == 1
\* longest mask (in tokens) passed to an operation
MaxMaskLen == 2
\* largest value the wall clock reading (time.time() - start) takes
MaxElapsed == 1
\* number of operations called on one engine in one behaviour
MaxOps == 3
\* longest template
MaxTemplateLen == 4

(* --------------------------- Python built-ins -------------------------- *)
Min(a, b) == IF a < b THEN a ELSE b

\* typed Python values: an int, a str, PyNone, a dict, an exception
PyInt(n) == [type |-> "int", value |-> n]
PyStr(x) == [type |-> "str", value |-> x]
PyNone == [type |-> "NoneType"]
PyDict(d) == [type |-> "dict", value |-> d]
PyExc(e) == [type |-> "exception", value |-> e]

\* the alphabets of the string module, cut to the first CharsPerClass characters
Prefix(s) == SubSeq(s, 1, Min(CharsPerClass, Len(s)))

ascii_lowercase ==
    Prefix(<<"a","b","c","d","e","f","g","h","i","j","k","l","m",
             "n","o","p","q","r","s","t","u","v","w","x","y","z">>)
ascii_uppercase ==
    Prefix(<<"A","B","C","D","E","F","G","H","I","J","K","L","M",
             "N","O","P","Q","R","S","T","U","V","W","X","Y","Z">>)
\* (the grave accent cannot be written in a TLA+ string; it is spelled out)
punctuation ==
    Prefix(<<"!","\"","#","$","%","&","'","(",")","*","+",",","-",".","/",":",
             ";","<","=",">","?","@","[","\\","]","^","_","<backtick>","{","|","}","~">>)
digits == Prefix(<<"0","1","2","3","4","5","6","7","8","9">>)
ascii_letters == ascii_lowercase \o ascii_uppercase

\* list(s): the list of the one-character strings of s
list(s) == [i \in 1..Len(s) |-> <<s[i]>>]

\* dict operations
Keys(d) == [i \in 1..Len(d) |-> d[i][1]]
Has(d, k) == \E i \in 1..Len(d) : d[i][1] = k
Get(d, k) == d[CHOOSE i \in 1..Len(d) : d[i][1] = k][2]
Put(d, k, v) ==
    IF Has(d, k)
    THEN [i \in 1..Len(d) |-> IF d[i][1] = k THEN <<k, v>> ELSE d[i]]
    ELSE Append(d, <<k, v>>)

\* sep.join(parts)
RECURSIVE join(_, _)
join(sep, parts) ==
    IF Len(parts) = 0 THEN <<>>
    ELSE IF Len(parts) = 1 THEN parts[1]
    ELSE parts[1] \o sep \o join(sep, Tail(parts))

\* s.split(sep) for a one-character separator: the fields between the
\* separators, empty fields included; never an empty list
RECURSIVE split(_, _)
split(s, sep) ==
    IF \A i \in 1..Len(s) : s[i] # sep THEN <<s>>
    ELSE LET i == CHOOSE j \in 1..Len(s) :
                      s[j] = sep /\ \A h \in 1..(j - 1) : s[h] # sep
         IN  <<SubSeq(s, 1, i - 1)>> \o split(SubSeq(s, i + 1, Len(s)), sep)

RECURSIVE product(_)
RECURSIVE product_FirstFastest(_)
RECURSIVE Flatten(_)
Flatten(ss) == IF Len(ss) = 0 THEN <<>> ELSE ss[1] \o Flatten(Tail(ss))

\* a product whose first position varies fastest
product_FirstFastest(lol) ==
    IF Len(lol) = 0 THEN << <<>> >>
    ELSE LET rest == product_FirstFastest(Tail(lol))
         IN  Flatten([j \in 1..Len(rest) |->
                        [i \in 1..Len(lol[1]) |-> <<lol[1][i]>> \o rest[j]]])

\* itertools.product(*lol) as the list of its tuples, in the order it yields
\* them: the last position varies fastest
product(lol) ==
    IF Len(lol) = 0 THEN << <<>> >>
    ELSE LET rest == product(Tail(lol))
         IN  Flatten([i \in 1..Len(lol[1]) |->
                        [j \in 1..Len(rest) |-> <<lol[1][i]>> \o rest[j]]])

\* hashlib.sha1(s.encode('utf-8')).hexdigest(): the digest is a value that is
\* not a plaintext and is determined by the plaintext; SHA-1 is taken to be
\* collision-free on the strings of the model
sha1(s) == [sha1_of |-> s]

(* ------------------------------- tokens -------------------------------- *)
t_lower == <<"l","o","w","e","r">>
t_upper == <<"u","p","p","e","r">>
t_punc == <<"p","u","n","c">>
t_digit == <<"d","i","g","i","t">>
t_letter == <<"l","e","t","t","e","r">>
t_any == <<"a","n","y">>
t_anyc == <<"a","n","y","c">>
t_noun == <<"n","o","u","n">>
t_verb == <<"v","e","r","b">>
t_adverb == <<"a","d","v","e","r","b">>
t_adjective == <<"a","d","j","e","c","t","i","v","e">>
t_pronoun == <<"p","r","o","n","o","u","n">>
t_conjunction == <<"c","o","n","j","u","n","c","t","i","o","n">>
t_preposition == <<"p","r","e","p","o","s","i","t","i","o","n">>
t_interjection == <<"i","n","t","e","r","j","e","c","t","i","o","n">>

(* ----------------------------- EntropyBase ----------------------------- *)
\* parse_mask(mask)
parse_mask(mask) == split(mask, " ")

\* lines 38-48: the token appended for one field of the template
template_code(t) ==
    IF t = <<"u">> THEN t_upper
    ELSE IF t = <<"l">> THEN t_lower
    ELSE IF t = <<"d">> THEN t_digit
    ELSE IF t = <<"s">> THEN t_punc
    ELSE t_anyc

\* template_to_mask with the slice [1:] of line 37 left out: the text before
\* the first "?" is translated too
template_to_mask_KeepsLeading(template) ==
    LET fields == split(template, "?")
    IN  join(<<" ">>, [i \in 1..Len(fields) |-> template_code(fields[i])])

\* EntropyBase.template_to_mask: the fields after each "?", translated and
\* joined by single spaces
template_to_mask(template) ==
    LET fields == Tail(split(template, "?"))
    IN  join(<<" ">>, [i \in 1..Len(fields) |-> template_code(fields[i])])

\* the outcome of a call: a returned value or a raised exception
Return(v) == [raised |-> "none", value |-> v]
Raise(e) == [raised |-> e]

\* poss_to_bits(poss): math.log raises ValueError unless poss > 0 (the value
\* of the logarithm is only printed)
poss_to_bits(poss) == IF poss > 0 THEN Return("bits") ELSE Raise("ValueError")

\* EntropyBase.calculate_security(possibilities)
Base_calculate_security(possibilities) ==
    IF poss_to_bits(possibilities).raised # "none"
    THEN poss_to_bits(possibilities)
    ELSE Return(possibilities)

\* line 75 with > written for >=
TimedOut_Strict(timeout_, elapsed_) == timeout_ # 0 /\ elapsed_ > timeout_

\* line 75: the timeout test made before a candidate is hashed
TimedOut(timeout_, elapsed_) == timeout_ # 0 /\ elapsed_ >= timeout_

\* lines 78-82: does the digest of teststr match the target?  The target is
\* [type |-> "set", value |-> a set of digests] or
\* [type |-> "str", value |-> a digest]
IsMatch(sha1sum_, teststr_) ==
    IF sha1sum_.type = "set"
    THEN sha1(teststr_) \in sha1sum_.value
    ELSE sha1sum_.value = sha1(teststr_)

(* --------------------------- PasswordPattern --------------------------- *)
\* PasswordPattern.__init__ with the sum of line 206 in another order: letter
\* + punc + digit
PasswordPattern_init_LetterFirst ==
    LET m1 == Put(<<>>, t_lower, list(ascii_lowercase))
        m2 == Put(m1, t_upper, list(ascii_uppercase))
        m3 == Put(m2, t_punc, list(punctuation))
        m4 == Put(m3, t_digit, list(digits))
        m5 == Put(m4, t_letter, list(ascii_letters))
    IN  Put(m5, t_any, Get(m5, t_letter) \o Get(m5, t_punc) \o Get(m5, t_digit))

\* PasswordPattern.__init__: the Class Registry, held in memoize
PasswordPattern_init ==
    LET m1 == Put(<<>>, t_lower, list(ascii_lowercase))
        m2 == Put(m1, t_upper, list(ascii_uppercase))
        m3 == Put(m2, t_punc, list(punctuation))
        m4 == Put(m3, t_digit, list(digits))
        m5 == Put(m4, t_letter, list(ascii_letters))
    IN  Put(m5, t_any, Get(m5, t_punc) \o Get(m5, t_digit) \o Get(m5, t_letter))

RECURSIVE Times(_)
Times(ns) == IF Len(ns) = 0 THEN 1 ELSE ns[1] * Times(Tail(ns))

\* PasswordPattern.calculate_security(mask)
Pattern_calculate_security(memo, mask_) ==
    LET m == parse_mask(mask_)
    IN  IF \E i \in 1..Len(m) : ~Has(memo, m[i])
        THEN Raise("KeyError")
        ELSE Base_calculate_security(Times([i \in 1..Len(m) |-> Len(Get(memo, m[i]))]))

(* --------------------------- EntropyAnalyzer --------------------------- *)
\* the letters among the characters of code point 0 to 127
Letters ==
    {"a","b","c","d","e","f","g","h","i","j","k","l","m",
     "n","o","p","q","r","s","t","u","v","w","x","y","z",
     "A","B","C","D","E","F","G","H","I","J","K","L","M",
     "N","O","P","Q","R","S","T","U","V","W","X","Y","Z"}
\* the characters of code point 0 to 127, in order (a character that cannot be
\* written in a TLA+ string is spelled out by its code point)
chr ==
   <<
      "<0x00>", "<0x01>", "<0x02>", "<0x03>", "<0x04>", "<0x05>", "<0x06>", "<0x07>",
      "<0x08>", "\t", "\n", "<0x0b>", "\f", "\r", "<0x0e>", "<0x0f>",
      "<0x10>", "<0x11>", "<0x12>", "<0x13>", "<0x14>", "<0x15>", "<0x16>", "<0x17>",
      "<0x18>", "<0x19>", "<0x1a>", "<0x1b>", "<0x1c>", "<0x1d>", "<0x1e>", "<0x1f>",
      " ", "!", "\"", "#", "$", "%", "&", "'",
      "(", ")", "*", "+", ",", "-", ".", "/",
      "0", "1", "2", "3", "4", "5", "6", "7",
      "8", "9", ":", ";", "<", "=", ">", "?",
      "@", "A", "B", "C", "D", "E", "F", "G",
      "H", "I", "J", "K", "L", "M", "N", "O",
      "P", "Q", "R", "S", "T", "U", "V", "W",
      "X", "Y", "Z", "[", "\\", "]", "^", "_",
      "<backtick>", "a", "b", "c", "d", "e", "f", "g",
      "h", "i", "j", "k", "l", "m", "n", "o",
      "p", "q", "r", "s", "t", "u", "v", "w",
      "x", "y", "z", "{", "|", "}", "~", "<0x7f>"
   >>
\* ord(c): the code point of the character; what is not in the table above
\* has a code point of 128 or more, and line 124 only compares with 128
ord(c) ==
    IF \E n \in 1..Len(chr) : chr[n] = c
    THEN (CHOOSE n \in 1..Len(chr) : chr[n] = c) - 1
    ELSE 128
\* c.isalpha() for one character. It is defined on the characters of code
\* point 0 to 127 only, which all words of the model are made of: which of the
\* other characters are letters is a matter of the Unicode database
isalpha(c) == CASE ord(c) < 128 -> c \in Letters
\* the filters registered by EntropyAnalyzer.__init__
filters(name, x) ==
    CASE name = "shorter_than_10" -> Len(x) < 10
      [] name = "shorter_than_8" -> Len(x) < 8
      [] name = "longer_than_3" -> Len(x) > 3
      [] name = "alpha_only" -> Len(x) > 0 /\ \A i \in 1..Len(x) : isalpha(x[i])
      [] name = "ascii_only" -> \A i \in 1..Len(x) : ord(x[i]) < 128

\* get_pos(word): the set of the parts of speech of the word's definitions
get_pos(d, word) ==
    LET wobj == Get(d, word)
    IN  {wobj.definitions[i].part_of_speech : i \in 1..Len(wobj.definitions)}

\* filter_dict(filter_func, cull): fdict, the entries whose key passes
fdict(d, name) == SelectSeq(d, LAMBDA e : filters(name, e[1]))

\* get_all_pos(pos)
get_all_pos(d, pos) ==
    SelectSeq(Keys(d), LAMBDA w : pos = t_any \/ pos \in get_pos(d, w))

\* insert_word_to_dict(word, poses)
insert_word_to_dict(d, word, poses) ==
    Put(d, word, [definitions |->
                    [i \in 1..Len(poses) |-> [part_of_speech |-> poses[i]]]])

\* add_chars(): the characters of every registry class but letter and any
RECURSIVE add_chars_of(_, _, _)
add_chars_of(d, cs, pos) ==
    IF Len(cs) = 0 THEN d
    ELSE add_chars_of(insert_word_to_dict(d, cs[1], pos), Tail(cs), pos)
\* add_chars without the skips of lines 185-188: letter and any are seeded as
\* originating classes too
RECURSIVE add_chars_from_SeedsEveryClass(_, _, _)
add_chars_from_SeedsEveryClass(d, pp, i) ==
    IF i > Len(pp) THEN d
    ELSE LET typ == pp[i][1]
             pos == <<typ, t_anyc>> \o
                    (IF typ = t_lower \/ typ = t_upper THEN <<t_letter>> ELSE <<>>)
         IN  add_chars_from_SeedsEveryClass(add_chars_of(d, pp[i][2], pos), pp, i + 1)
RECURSIVE add_chars_from(_, _, _)
add_chars_from(d, pp, i) ==
    IF i > Len(pp) THEN d
    ELSE LET typ == pp[i][1]
             pos == <<typ, t_anyc>> \o
                    (IF typ = t_lower \/ typ = t_upper THEN <<t_letter>> ELSE <<>>)
         IN  IF typ = t_letter \/ typ = t_any
             THEN add_chars_from(d, pp, i + 1)
             ELSE add_chars_from(add_chars_of(d, pp[i][2], pos), pp, i + 1)
add_chars(d) == add_chars_from(d, PasswordPattern_init, 1)

\* get_num_pos(sdict): the keys of pos_count, then the count per key
pos_count_keys ==
    {t_noun, t_verb, t_adverb, t_adjective, t_pronoun, t_conjunction,
     t_preposition, t_interjection, t_anyc, t_punc, t_digit, t_lower, t_upper,
     t_letter}
get_num_pos(d, sdict) ==
    [p \in pos_count_keys \cup {t_any} |->
        IF p = t_any THEN Len(sdict)
        ELSE Cardinality({i \in 1..Len(sdict) : p \in get_pos(d, sdict[i][1])})]

\* EntropyAnalyzer.calculate_security(pos_mask)
Analyzer_calculate_security(d, pos_mask_) ==
    LET pos_count == get_num_pos(d, d)
        m == parse_mask(pos_mask_)
    IN  IF \E i \in 1..Len(m) : m[i] \notin DOMAIN pos_count
        THEN Raise("KeyError")
        ELSE Base_calculate_security(Times([i \in 1..Len(m) |-> pos_count[m[i]]]))

\* gen_pass(mask) from position 1 of toks on, with pw built so far: the set of
\* its possible outcomes (random.choice draws any member; IndexError on an
\* empty list), each with the cache it leaves behind
RECURSIVE gen_pass(_, _, _, _, _)
RECURSIVE gen_pass_Overwrites(_, _, _, _, _)
\* gen_pass with = written for += on line 100
gen_pass_Overwrites(eng, memo, d, toks, pw) ==
    IF Len(toks) = 0 THEN {[memoize |-> memo, outcome |-> Return(pw)]}
    ELSE LET pos == toks[1]
         IN  IF ~Has(memo, pos) /\ eng = "PasswordPattern"
             THEN {[memoize |-> memo, outcome |-> Raise("AttributeError")]}
             ELSE LET m2 == IF Has(memo, pos) THEN memo
                            ELSE Put(memo, pos, get_all_pos(d, pos))
                      lst == Get(m2, pos)
                  IN  IF Len(lst) = 0
                      THEN {[memoize |-> m2, outcome |-> Raise("IndexError")]}
                      ELSE UNION {gen_pass_Overwrites(eng, m2, d, Tail(toks), lst[i]) :
                                    i \in 1..Len(lst)}

gen_pass(eng, memo, d, toks, pw) ==
    IF Len(toks) = 0 THEN {[memoize |-> memo, outcome |-> Return(pw)]}
    ELSE LET pos == toks[1]
         IN  IF ~Has(memo, pos) /\ eng = "PasswordPattern"
             THEN {[memoize |-> memo, outcome |-> Raise("AttributeError")]}
             ELSE LET m2 == IF Has(memo, pos) THEN memo
                            ELSE Put(memo, pos, get_all_pos(d, pos))
                      lst == Get(m2, pos)
                  IN  IF Len(lst) = 0
                      THEN {[memoize |-> m2, outcome |-> Raise("IndexError")]}
                      ELSE UNION {gen_pass(eng, m2, d, Tail(toks), pw \o lst[i]) :
                                    i \in 1..Len(lst)}

\* calculate_security(mask), dispatched on the class of the engine
calculate_security(eng, memo, d, mask_) ==
    IF eng = "PasswordPattern"
    THEN Pattern_calculate_security(memo, mask_)
    ELSE Analyzer_calculate_security(d, mask_)

(* ------------------------------- inputs -------------------------------- *)
w_a == <<"a">>
w_aa == <<"a","a">>
w_aaa == <<"a","a","a">>
w_aardvark == <<"a","a","r","d","v","a","r","k">>
w_cat == <<"c","a","t">>

\* the dictionary resource read by EntropyAnalyzer.__init__ (json.load)
DictFiles ==
    { << <<w_a, [definitions |-> <<[part_of_speech |-> t_noun]>>]>>,
         <<w_aa, [definitions |-> <<[part_of_speech |-> t_noun],
                                    [part_of_speech |-> t_noun]>>]>>,
         <<w_aardvark, [definitions |-> <<[part_of_speech |-> t_noun]>>]>> >> }

MaskTokens == {t_any, t_lower, t_noun}
PosMasks ==
    {join(<<" ">>, ts) : ts \in UNION {[1..n -> MaskTokens] : n \in 1..MaxMaskLen}}
\* templates: "?", the four class codes and one other code
TemplateChars == {"?", "u", "l", "d", "s", "x"}
Templates == UNION {[1..n -> TemplateChars] : n \in 0..MaxTemplateLen}
TranslatedMasks == {template_to_mask(t) : t \in Templates}
Timeouts == 0..MaxElapsed
Plaintexts == {w_aa, w_aaa}
StrSha1sums == {[type |-> "str", value |-> sha1(p)] : p \in Plaintexts}
SetSha1sums ==
    {[type |-> "set", value |-> {sha1(p) : p \in S}] : S \in SUBSET Plaintexts}
FilterNames == {"shorter_than_8", "longer_than_3", "ascii_only"}
Inserts == {<<w_cat, <<t_noun>>>>, <<w_aa, <<t_verb>>>>}

(* -------------------------------- state -------------------------------- *)
VARIABLES
    engine,       \* the class of the engine: "PasswordPattern" or "EntropyAnalyzer"
    dict,         \* self.dict, the catalog
    memoize,      \* self.memoize, the cache
    nops,         \* number of operations called so far
    hist,         \* history: the last catalog mutation, the cache as it was
                  \* when the last committed filter began, and whether a
                  \* search has ended before exhausting its candidates
    pc,           \* "idle", a line of iter_crack, or "done"
    call,         \* the operation in progress or just finished, with its arguments
    now,          \* the last reading of time.time(), counted from the call's entry
    bound,        \* the local names of iter_crack that have a value
    start,        \* the locals of iter_crack
    crack_count,
    mask,
    lol,
    k,            \* number of tuples itertools.product has yielded
    teststr,
    hashed,       \* the candidates hashed by this call, in order
    state,        \* terminal state of the call
    ret           \* what the call returned, or the exception it raised

vars == <<engine, dict, memoize, nops, hist, pc, call, now, bound, start, crack_count,
          mask, lol, k, teststr, hashed, state, ret>>

\* a frame in which no local is bound
NoFrame ==
    /\ now' = 0
    /\ bound' = {}
    /\ start' = 0
    /\ crack_count' = 0
    /\ mask' = <<>>
    /\ lol' = <<>>
    /\ k' = 0
    /\ teststr' = <<>>
    /\ hashed' = <<>>

Init ==
    /\ engine \in {"PasswordPattern", "EntropyAnalyzer"}
    /\ \E f \in DictFiles :
          dict = IF engine = "EntropyAnalyzer" THEN add_chars(f) ELSE <<>>
    /\ memoize = IF engine = "PasswordPattern" THEN PasswordPattern_init ELSE <<>>
    /\ nops = 0
    /\ hist = [mutation |-> "none", cached |-> <<>>, early |-> FALSE]
    /\ pc = "idle"
    /\ call = [name |-> "none"]
    /\ now = 0 /\ bound = {} /\ start = 0 /\ crack_count = 0 /\ mask = <<>>
    /\ lol = <<>> /\ k = 0 /\ teststr = <<>> /\ hashed = <<>>
    /\ state = "none"
    /\ ret = PyNone

\* the call ends: terminal state st, result r
Finish(st, r) ==
    /\ pc' = "done"
    /\ state' = st
    /\ ret' = r

(* ------------------------------ iter_crack ----------------------------- *)
\* the caller enters iter_crack(sha1sum, pos_mask, timeout, timef)
CallIterCrackOn(masks) ==
    /\ pc = "idle" /\ nops < MaxOps
    /\ \E m \in masks, t \in Timeouts, f \in BOOLEAN :
          \/ \E s \in StrSha1sums :
                call' = [name |-> "iter_crack", sha1sum |-> s, pos_mask |-> m,
                         timeout |-> t, timef |-> f]
          \/ \E s \in SetSha1sums :
                call' = [name |-> "iter_crack", sha1sum |-> s, pos_mask |-> m,
                         timeout |-> t, timef |-> f]
    /\ nops' = nops + 1
    /\ pc' = "l66"
    /\ state' = "Running"
    /\ ret' = PyNone
    /\ NoFrame
    /\ UNCHANGED <<engine, hist, dict, memoize>>

CallIterCrack == CallIterCrackOn(PosMasks)

\* line 66: start = time.time()
L66 ==
    /\ pc = "l66"
    /\ start' = now
    /\ bound' = bound \cup {"start"}
    /\ pc' = "l67"
    /\ UNCHANGED <<engine, hist, dict, memoize, nops, call, now, crack_count, mask,
                   lol, k, teststr, hashed, state, ret>>

\* line 67: crack_count = 0
L67 ==
    /\ pc = "l67"
    /\ crack_count' = 0
    /\ bound' = bound \cup {"crack_count"}
    /\ pc' = "l68"
    /\ UNCHANGED <<engine, hist, dict, memoize, nops, call, now, start, mask, lol, k,
                   teststr, hashed, state, ret>>

\* lines 68-69: mask = self.parse_mask(pos_mask); lol = []
L68 ==
    /\ pc = "l68"
    /\ mask' = parse_mask(call.pos_mask)
    /\ lol' = <<>>
    /\ bound' = bound \cup {"mask", "lol"}
    /\ pc' = "l70"
    /\ UNCHANGED <<engine, hist, dict, memoize, nops, call, now, start, crack_count,
                   k, teststr, hashed, state, ret>>

\* lines 70-73 without the test of line 71: the position is resolved anew and
\* stored on every turn
L70_AlwaysRecomputes ==
    /\ pc = "l70"
    /\ LET pos == mask[Len(lol) + 1]
       IN  IF engine = "PasswordPattern"
           THEN /\ Finish("Fault", PyExc("AttributeError"))
                /\ UNCHANGED <<memoize, lol>>
           ELSE /\ memoize' = Put(memoize, pos, get_all_pos(dict, pos))
                /\ lol' = Append(lol, Get(memoize', pos))
                /\ pc' = IF Len(lol') = Len(mask) THEN "l74" ELSE "l70"
                /\ UNCHANGED <<state, ret>>
    /\ UNCHANGED <<engine, hist, dict, nops, call, now, bound, start, crack_count, mask, k,
                   teststr, hashed>>

\* lines 70-73, one turn of the loop: resolve the next position of the mask.
\* EntropyBase and PasswordPattern define no get_all_pos: AttributeError
L70 ==
    /\ pc = "l70"
    /\ LET pos == mask[Len(lol) + 1]
       IN  IF ~Has(memoize, pos) /\ engine = "PasswordPattern"
           THEN /\ Finish("Fault", PyExc("AttributeError"))
                /\ UNCHANGED <<memoize, lol>>
           ELSE /\ memoize' = IF Has(memoize, pos) THEN memoize
                              ELSE Put(memoize, pos, get_all_pos(dict, pos))
                /\ lol' = Append(lol, Get(memoize', pos))
                /\ pc' = IF Len(lol') = Len(mask) THEN "l74" ELSE "l70"
                /\ UNCHANGED <<state, ret>>
    /\ UNCHANGED <<engine, hist, dict, nops, call, now, bound, start, crack_count,
                   mask, k, teststr, hashed>>

\* line 74: the for statement asks itertools.product for the next tuple;
\* line 87 when there is none
L74 ==
    /\ pc = "l74"
    /\ IF k = Len(product(lol))
       THEN /\ Finish("Exhausted", PyInt(crack_count))
            /\ UNCHANGED <<k, bound>>
       ELSE /\ k' = k + 1
            /\ bound' = bound \cup {"perm"}
            /\ pc' = "l75"
            /\ UNCHANGED <<state, ret>>
    /\ UNCHANGED <<engine, hist, dict, memoize, nops, call, now, start, crack_count,
                   mask, lol, teststr, hashed>>

\* lines 75-76: read the clock (it never runs backwards) and test the timeout
L75 ==
    /\ pc = "l75"
    /\ \E t \in now..MaxElapsed :
          /\ now' = t
          /\ IF TimedOut(call.timeout, t - start)
             THEN Finish("Timeout", PyInt(crack_count))
             ELSE pc' = "l77" /\ UNCHANGED <<state, ret>>
    /\ UNCHANGED <<engine, hist, dict, memoize, nops, call, bound, start, crack_count,
                   mask, lol, k, teststr, hashed>>

\* lines 77-83 with a return added once the count reaches the size of the set
L77_StopsWhenAllMatched ==
    /\ pc = "l77"
    /\ teststr' = join(<<>>, product(lol)[k])
    /\ bound' = bound \cup {"teststr"}
    /\ hashed' = Append(hashed, teststr')
    /\ IF IsMatch(call.sha1sum, teststr')
       THEN /\ crack_count' = crack_count + 1
            /\ IF call.sha1sum.type = "set"
               THEN IF crack_count' = Cardinality(call.sha1sum.value)
                    THEN Finish("Exhausted", PyInt(crack_count'))
                    ELSE pc' = "l74" /\ UNCHANGED <<state, ret>>
               ELSE pc' = "l84" /\ UNCHANGED <<state, ret>>
       ELSE /\ pc' = "l74"
            /\ UNCHANGED <<crack_count, state, ret>>
    /\ UNCHANGED <<engine, hist, dict, memoize, nops, call, now, start, mask, lol, k>>

\* lines 77-83: join the tuple, hash it, compare, count
L77 ==
    /\ pc = "l77"
    /\ teststr' = join(<<>>, product(lol)[k])
    /\ bound' = bound \cup {"teststr"}
    /\ hashed' = Append(hashed, teststr')
    /\ IF IsMatch(call.sha1sum, teststr')
       THEN /\ crack_count' = crack_count + 1
            /\ pc' = IF call.sha1sum.type = "set" THEN "l74" ELSE "l84"
       ELSE /\ pc' = "l74"
            /\ UNCHANGED crack_count
    /\ UNCHANGED <<engine, hist, dict, memoize, nops, call, now, start, mask, lol, k,
                   state, ret>>

\* line 86 left out: the loop goes on after a match
L84_KeepsSearching ==
    /\ pc = "l84"
    /\ pc' = "l74"
    /\ UNCHANGED <<engine, hist, dict, memoize, nops, call, now, bound, start, crack_count,
                   mask, lol, k, teststr, hashed, state, ret>>

\* line 86 returning crack_count for teststr
L84_ReturnsCount ==
    /\ pc = "l84"
    /\ Finish("Found", PyInt(crack_count))
    /\ UNCHANGED <<engine, hist, dict, memoize, nops, call, now, bound, start, crack_count,
                   mask, lol, k, teststr, hashed>>

\* lines 84-86: (print the elapsed time;) return teststr
L84 ==
    /\ pc = "l84"
    /\ Finish("Found", PyStr(teststr))
    /\ UNCHANGED <<engine, hist, dict, memoize, nops, call, now, bound, start, crack_count,
                   mask, lol, k, teststr, hashed>>

\* lines 88-91: KeyboardInterrupt raised at any line of the try block.  The
\* handler reads crack_count (and start when timef): UnboundLocalError when
\* the interrupt came before line 67 had bound it.  The elapsed time the
\* handler prints when timef is not part of the result.
InIterCrack == pc \in {"l66", "l67", "l68", "l70", "l74", "l75", "l77", "l84"}
KeyboardInterrupt ==
    /\ InIterCrack
    /\ IF "crack_count" \notin bound \/ (call.timef /\ "start" \notin bound)
       THEN Finish("Fault", PyExc("UnboundLocalError"))
       ELSE Finish("Interrupted", PyInt(crack_count))
    /\ UNCHANGED <<engine, hist, dict, memoize, nops, call, now, bound, start, crack_count,
                   mask, lol, k, teststr, hashed>>

(* --------------------------- other operations -------------------------- *)
\* gen_pass(mask)
GenPassOn(masks) ==
    /\ pc = "idle" /\ nops < MaxOps
    /\ \E m \in masks :
          /\ call' = [name |-> "gen_pass", mask |-> m]
          /\ \E o \in gen_pass(engine, memoize, dict, parse_mask(m), <<>>) :
                /\ memoize' = o.memoize
                /\ IF o.outcome.raised = "none"
                   THEN Finish("Returned", PyStr(o.outcome.value))
                   ELSE Finish("Fault", PyExc(o.outcome.raised))
    /\ nops' = nops + 1
    /\ UNCHANGED <<engine, hist, dict, now, bound, start, crack_count, mask, lol, k, teststr,
                   hashed>>

GenPass == GenPassOn(PosMasks)

\* calculate_security(mask) of the engine's class
CalculateSecurityOn(masks) ==
    /\ pc = "idle" /\ nops < MaxOps
    /\ \E m \in masks :
          /\ call' = [name |-> "calculate_security", mask |-> m]
          /\ LET o == calculate_security(engine, memoize, dict, m)
             IN  IF o.raised = "none"
                 THEN Finish("Returned", PyInt(o.value))
                 ELSE Finish("Fault", PyExc(o.raised))
    /\ nops' = nops + 1
    /\ UNCHANGED <<engine, hist, dict, memoize, now, bound, start, crack_count, mask, lol, k,
                   teststr, hashed>>

CalculateSecurity == CalculateSecurityOn(PosMasks)

\* template_to_mask(template)
TemplateToMask ==
    /\ pc = "idle" /\ nops < MaxOps
    /\ \E t \in Templates :
          /\ call' = [name |-> "template_to_mask", template |-> t]
          /\ Finish("Returned", PyStr(template_to_mask(t)))
    /\ nops' = nops + 1
    /\ UNCHANGED <<engine, hist, dict, memoize, now, bound, start, crack_count, mask, lol, k,
                   teststr, hashed>>

\* filter_dict with line 142 left out: the cache survives the filter
FilterDict_KeepsCache ==
    /\ pc = "idle" /\ nops < MaxOps
    /\ engine = "EntropyAnalyzer"
    /\ \E name \in FilterNames, cull \in BOOLEAN :
          /\ call' = [name |-> "filter_dict", filter_func |-> name, cull |-> cull]
          /\ IF cull
             THEN /\ dict' = fdict(dict, name)
                  /\ memoize' = memoize
                  /\ hist' = [hist EXCEPT !.mutation = "filter_dict",
                                          !.cached = memoize]
                  /\ Finish("Returned", PyNone)
             ELSE /\ Finish("Returned", PyDict(fdict(dict, name)))
                  /\ UNCHANGED <<dict, memoize, hist>>
    /\ nops' = nops + 1
    /\ UNCHANGED <<engine, now, bound, start, crack_count, mask, lol, k, teststr,
                   hashed>>

\* filter_dict with lines 141-142 run whatever cull is
FilterDict_AlwaysCulls ==
    /\ pc = "idle" /\ nops < MaxOps
    /\ engine = "EntropyAnalyzer"
    /\ \E name \in FilterNames, cull \in BOOLEAN :
          /\ call' = [name |-> "filter_dict", filter_func |-> name, cull |-> cull]
          /\ dict' = fdict(dict, name)
          /\ memoize' = <<>>
          /\ hist' = [hist EXCEPT !.mutation = "filter_dict", !.cached = memoize]
          /\ IF cull
             THEN Finish("Returned", PyNone)
             ELSE Finish("Returned", PyDict(fdict(dict, name)))
    /\ nops' = nops + 1
    /\ UNCHANGED <<engine, now, bound, start, crack_count, mask, lol, k, teststr,
                   hashed>>

\* EntropyAnalyzer.filter_dict(filter_func, cull)
FilterDict ==
    /\ pc = "idle" /\ nops < MaxOps
    /\ engine = "EntropyAnalyzer"
    /\ \E name \in FilterNames, cull \in BOOLEAN :
          /\ call' = [name |-> "filter_dict", filter_func |-> name, cull |-> cull]
          /\ IF cull
             THEN /\ dict' = fdict(dict, name)
                  /\ memoize' = <<>>
                  /\ hist' = [hist EXCEPT !.mutation = "filter_dict",
                                          !.cached = memoize]
                  /\ Finish("Returned", PyNone)
             ELSE /\ Finish("Returned", PyDict(fdict(dict, name)))
                  /\ UNCHANGED <<dict, memoize, hist>>
    /\ nops' = nops + 1
    /\ UNCHANGED <<engine, now, bound, start, crack_count, mask, lol, k, teststr,
                   hashed>>

\* EntropyAnalyzer.insert_word_to_dict(word, poses)
InsertWordToDict ==
    /\ pc = "idle" /\ nops < MaxOps
    /\ engine = "EntropyAnalyzer"
    /\ \E a \in Inserts :
          /\ call' = [name |-> "insert_word_to_dict", word |-> a[1], poses |-> a[2]]
          /\ dict' = insert_word_to_dict(dict, a[1], a[2])
    /\ hist' = [hist EXCEPT !.mutation = "insert_word_to_dict"]
    /\ Finish("Returned", PyNone)
    /\ nops' = nops + 1
    /\ UNCHANGED <<engine, memoize, now, bound, start, crack_count, mask, lol, k,
                   teststr, hashed>>

\* EntropyAnalyzer.add_chars(), called again after construction
AddChars ==
    /\ pc = "idle" /\ nops < MaxOps
    /\ engine = "EntropyAnalyzer"
    /\ call' = [name |-> "add_chars"]
    /\ dict' = add_chars(dict)
    /\ hist' = [hist EXCEPT !.mutation = "add_chars"]
    /\ Finish("Returned", PyNone)
    /\ nops' = nops + 1
    /\ UNCHANGED <<engine, memoize, now, bound, start, crack_count, mask, lol, k,
                   teststr, hashed>>

\* the caller takes the result; the frame of the call is gone
Done ==
    /\ pc = "done"
    /\ pc' = "idle"
    /\ call' = [name |-> "none"]
    /\ state' = "none"
    /\ ret' = PyNone
    /\ NoFrame
    /\ hist' = IF call.name = "iter_crack"
                  /\ state \in {"Found", "Timeout", "Interrupted"}
               THEN [hist EXCEPT !.early = TRUE]
               ELSE hist
    /\ UNCHANGED <<engine, dict, memoize, nops>>

Next ==
    \/ CallIterCrack \/ L66 \/ L67 \/ L68 \/ L70 \/ L74 \/ L75 \/ L77 \/ L84
    \/ KeyboardInterrupt
    \/ GenPass \/ CalculateSecurity \/ FilterDict \/ InsertWordToDict
    \/ AddChars
    \/ Done

Spec == Init /\ [][Next]_vars

\* the character-only engine driven with templates: every mask it is given
\* is the translation of a template
TemplateInit == Init /\ engine = "PasswordPattern"

TemplateNext ==
    \/ TemplateToMask
    \/ CallIterCrackOn(TranslatedMasks)
    \/ L66 \/ L67 \/ L68 \/ L70 \/ L74 \/ L75 \/ L77 \/ L84
    \/ KeyboardInterrupt
    \/ GenPassOn(TranslatedMasks) \/ CalculateSecurityOn(TranslatedMasks)
    \/ Done

TemplateSpec == TemplateInit /\ [][TemplateNext]_vars

(* ------------------------------- claims -------------------------------- *)
\* the candidates of the resolved lists, in enumeration order
Candidates == [i \in 1..Len(product(lol)) |-> join(<<>>, product(lol)[i])]
\* the number of matches among the candidates hashed so far
Matched == Cardinality({i \in 1..Len(hashed) : IsMatch(call.sha1sum, hashed[i])})
\* a finished call of iter_crack
IterCrackDone == pc = "done" /\ call.name = "iter_crack"
\* the mask has been resolved position by position
Resolved ==
    /\ "lol" \in bound
    /\ Len(lol) = Len(parse_mask(call.pos_mask))
    /\ \A i \in 1..Len(lol) : lol[i] = Get(memoize, parse_mask(call.pos_mask)[i])

\* C1: a KeyboardInterrupt delivered at any point of iter_crack ends the call
\* in Interrupted, returning the count accumulated so far, and raises nothing.
C1_InterruptIsGraceful ==
    [][KeyboardInterrupt =>
          /\ state' = "Interrupted"
          /\ ret'.type = "int"
          /\ ret'.value = crack_count
          /\ "crack_count" \in bound]_vars

\* C2: in set mode with no timeout and no interrupt, iter_crack hashes every
\* candidate of the mask and returns the number of them whose digest is in the
\* set; no match ends the search.
C2_SetModeCountsEveryMatch ==
    (/\ IterCrackDone
     /\ call.sha1sum.type = "set"
     /\ call.timeout = 0
     /\ state \notin {"Interrupted", "Fault"})
    => /\ state = "Exhausted"
       /\ Resolved
       /\ hashed = Candidates
       /\ ret.type = "int"
       /\ ret.value =
            Cardinality({i \in 1..Len(Candidates) :
                            sha1(Candidates[i]) \in call.sha1sum.value})
\* a set-mode search that ran on to the end after every digest of the set had
\* been matched
C2_Witness ==
    /\ IterCrackDone
    /\ call.sha1sum.type = "set"
    /\ call.timeout = 0
    /\ state = "Exhausted"
    /\ call.sha1sum.value # {}
    /\ \E n \in 1..(Len(hashed) - 1) :
          /\ \A h \in call.sha1sum.value : \E i \in 1..n : sha1(hashed[i]) = h
          /\ sha1(hashed[Len(hashed)]) \notin call.sha1sum.value
    /\ ret.value >= Cardinality(call.sha1sum.value)

\* C3: in single-target mode with no timeout and no interrupt, if a candidate's
\* digest equals the target, iter_crack returns the first such candidate in
\* enumeration order, and no candidate after it is joined, hashed or compared.
C3_FirstMatchReturnedAtOnce ==
    (/\ IterCrackDone
     /\ call.sha1sum.type = "str"
     /\ call.timeout = 0
     /\ state \notin {"Interrupted", "Fault"}
     /\ \E i \in 1..Len(Candidates) : sha1(Candidates[i]) = call.sha1sum.value)
    => LET first == CHOOSE i \in 1..Len(Candidates) :
                       /\ sha1(Candidates[i]) = call.sha1sum.value
                       /\ \A j \in 1..(i - 1) : sha1(Candidates[j]) # call.sha1sum.value
       IN  /\ state = "Found"
           /\ ret.type = "str"
           /\ ret.value = Candidates[first]
           /\ k = first
           /\ hashed = SubSeq(Candidates, 1, first)
\* a search that found its target and left later candidates untested, one of
\* them a second match
C3_Witness ==
    /\ IterCrackDone
    /\ call.sha1sum.type = "str"
    /\ call.timeout = 0
    /\ state = "Found"
    /\ \E j \in (k + 1)..Len(Candidates) : sha1(Candidates[j]) = call.sha1sum.value
    /\ Len(hashed) > 1

\* C4: in single-target mode a string is returned if and only if the search
\* ended in Found, and every Exhausted or Timeout exit returns the integer 0.
C4_ResultTypeTellsFound ==
    (IterCrackDone /\ call.sha1sum.type = "str")
    => /\ (ret.type = "str") <=> (state = "Found")
       /\ state \in {"Exhausted", "Timeout"} => ret.type = "int" /\ ret.value = 0
\* a single-target search that timed out after hashing candidates
C4_Witness ==
    /\ IterCrackDone
    /\ call.sha1sum.type = "str"
    /\ state = "Timeout"
    /\ Len(hashed) > 0
    /\ \E i \in 1..Len(Candidates) : sha1(Candidates[i]) = call.sha1sum.value

\* C5: the timeout is tested once per candidate, before the candidate is
\* hashed: when timeout is nonzero and the elapsed time read at the test is
\* >= timeout the call ends in Timeout with the count of the candidates already
\* processed and the current candidate is not hashed; otherwise the candidate
\* goes on to be hashed; with timeout 0 the call never ends in Timeout.
C5_TimeoutBeforeEachHash ==
    call.name = "iter_crack"
    => /\ pc = "l77" => /\ ~(call.timeout # 0 /\ now - start >= call.timeout)
                        /\ Len(hashed) = k - 1
       /\ state = "Timeout"
            => /\ call.timeout # 0
               /\ now - start >= call.timeout
               /\ k >= 1
               /\ Len(hashed) = k - 1
               /\ ret.type = "int"
               /\ ret.value = Matched
\* a set-mode search that timed out with a positive partial count
C5_Witness ==
    /\ IterCrackDone
    /\ state = "Timeout"
    /\ ret.value >= 1
    /\ Len(hashed) >= 2

\* every cached list is what get_all_pos computes from the catalog, and so is
\* every list a running search has taken from the cache
Coherent ==
    /\ \A i \in 1..Len(memoize) : memoize[i][2] = get_all_pos(dict, memoize[i][1])
    /\ "lol" \in bound => \A i \in 1..Len(lol) : lol[i] = get_all_pos(dict, mask[i])

\* no cached list, and no list a running search uses, holds a word that is
\* not in the catalog
NoCulledMember ==
    /\ \A i \in 1..Len(memoize) :
          \A j \in 1..Len(memoize[i][2]) : Has(dict, memoize[i][2][j])
    /\ "lol" \in bound =>
          \A i \in 1..Len(lol) : \A j \in 1..Len(lol[i]) : Has(dict, lol[i][j])

\* C6: a committed filter_dict leaves the cache empty; from then on (until the
\* next catalog mutation) every resolution yields the members of the token in
\* the filtered catalog, and no list computed before the filter is ever used
\* again: no word the filter removed is in a list of the lexical engine.
C6_FilterCommitDropsCache ==
    /\ (pc = "done" /\ call.name = "filter_dict" /\ call.cull) => memoize = <<>>
    /\ hist.mutation = "filter_dict" => Coherent
    /\ engine = "EntropyAnalyzer" => NoCulledMember
\* a token cached before a committed filter and resolved again after it, to a
\* different list
C6_Witness ==
    /\ hist.mutation = "filter_dict"
    /\ \E i \in 1..Len(memoize) :
          /\ Has(hist.cached, memoize[i][1])
          /\ Get(hist.cached, memoize[i][1]) # memoize[i][2]

\* C7: on a lexical engine, in every state every cached token maps to the list
\* get_all_pos computes from the current catalog.
C7_CacheCoherent == engine = "EntropyAnalyzer" => Coherent

\* C8: a search that runs to the end has enumerated as many candidates as the
\* product of the sizes of the resolved lists, and no candidate string twice.
C8_CandidatesCountedAndDistinct ==
    (IterCrackDone /\ state = "Exhausted")
    => /\ Len(hashed) = Times([i \in 1..Len(lol) |-> Len(lol[i])])
       /\ \A i, j \in 1..Len(hashed) : i # j => hashed[i] # hashed[j]

\* C9: when a token of the mask resolves to no member, iter_crack and gen_pass
\* raise to the caller; iter_crack does not end in Exhausted and gen_pass
\* returns no string.
C9_EmptyClassIsSurfaced ==
    /\ (/\ IterCrackDone
        /\ Resolved
        /\ \E i \in 1..Len(lol) : Len(lol[i]) = 0
        /\ state # "Interrupted")
       => state = "Fault"
    /\ (/\ pc = "done"
        /\ call.name = "gen_pass"
        /\ \E i \in 1..Len(parse_mask(call.mask)) :
              /\ Has(memoize, parse_mask(call.mask)[i])
              /\ Len(Get(memoize, parse_mask(call.mask)[i])) = 0)
       => state = "Fault"

\* C10: the possibility count calculate_security computes for a mask equals the
\* number of candidates iter_crack enumerates for that mask on the same engine
\* in the same state.
C10_EstimateEqualsEnumeration ==
    (IterCrackDone /\ state = "Exhausted" /\ call.timeout = 0)
    => LET o == calculate_security(engine, memoize, dict, call.pos_mask)
       IN  o.raised = "none" => o.value = Len(hashed)

\* the index, in the list of position i, of the member the n-th candidate of
\* an odometer over lol takes there (the last position is the fastest wheel)
OdometerIndex(n, i) ==
    (((n - 1) \div Times([j \in 1..(Len(lol) - i) |-> Len(lol[i + j])]))
        % Len(lol[i])) + 1

\* C11: the candidates a search tests are, in order, the first candidates of
\* the odometer over the resolved lists (last position fastest, each position
\* in list order), starting from the first one whatever searches ran before
\* and however they ended.
C11_OdometerOrder ==
    call.name = "iter_crack"
    => /\ k \in {Len(hashed), Len(hashed) + 1}
       /\ \A n \in 1..Len(hashed) :
             hashed[n] = join(<<>>, [i \in 1..Len(lol) |-> lol[i][OdometerIndex(n, i)]])
\* a search over two positions of several members each, started after an
\* earlier search ended early, in which the first position has stepped
C11_Witness ==
    /\ call.name = "iter_crack"
    /\ hist.early
    /\ Len(lol) = 2
    /\ Len(lol[1]) >= 2
    /\ Len(lol[2]) >= 2
    /\ Len(hashed) > Len(lol[2])

\* r holds exactly the entries of d whose key passes the filter, in the order
\* of d
IsFiltered(r, d, name) ==
    LET pass == {i \in 1..Len(d) : filters(name, d[i][1])}
    IN  /\ Len(r) = Cardinality(pass)
        /\ \A i \in pass : r[Cardinality({j \in pass : j <= i})] = d[i]

\* C12: filter_dict(predicate, cull=False) returns exactly the catalog entries
\* whose key satisfies the predicate, in catalog order, and leaves the catalog
\* and the cache unchanged; with cull=True it replaces the catalog with
\* exactly that subset and empties the cache.
C12_FilterDictEffect ==
    [][(pc = "idle" /\ call'.name = "filter_dict")
          => IF call'.cull
             THEN /\ IsFiltered(dict', dict, call'.filter_func)
                  /\ memoize' = <<>>
                  /\ ret'.type = "NoneType"
             ELSE /\ ret'.type = "dict"
                  /\ IsFiltered(ret'.value, dict, call'.filter_func)
                  /\ dict' = dict
                  /\ memoize' = memoize]_vars
\* an uncommitted filter that returned a proper, non-empty part of the catalog
\* while the cache held lists
C12_Witness ==
    /\ pc = "done"
    /\ call.name = "filter_dict"
    /\ ~call.cull
    /\ Len(ret.value) > 0
    /\ Len(ret.value) < Len(dict)
    /\ Len(memoize) > 0

\* a finished call of gen_pass, and the tokens of its mask
GenPassDone == pc = "done" /\ call.name = "gen_pass"
GenPassTokens == parse_mask(call.mask)
\* every token of the mask of gen_pass resolves to a non-empty list
GenPassResolvable ==
    \A i \in 1..Len(GenPassTokens) :
        /\ Has(memoize, GenPassTokens[i])
        /\ Len(Get(memoize, GenPassTokens[i])) > 0

\* C13 as stated: gen_pass returns a string whose length is the number of
\* tokens of the mask and whose i-th character is a member of the i-th token's
\* list.
C13_OneCharacterPerToken ==
    (GenPassDone /\ GenPassResolvable)
    => /\ state = "Returned"
       /\ ret.type = "str"
       /\ Len(ret.value) = Len(GenPassTokens)
       /\ \A i \in 1..Len(GenPassTokens) :
             \E j \in 1..Len(Get(memoize, GenPassTokens[i])) :
                Get(memoize, GenPassTokens[i])[j] = <<ret.value[i]>>

\* C13 amended: gen_pass returns the concatenation, in mask order, of one
\* member of each token's resolved list; its length is the number of tokens
\* when every member is one character long, as on the character-only engine.
C13_OneMemberPerToken ==
    (GenPassDone /\ GenPassResolvable)
    => /\ state = "Returned"
       /\ ret.type = "str"
       /\ LET tuples == product([i \in 1..Len(GenPassTokens) |->
                                    Get(memoize, GenPassTokens[i])])
          IN  \E n \in 1..Len(tuples) : ret.value = join(<<>>, tuples[n])
       /\ engine = "PasswordPattern" => Len(ret.value) = Len(GenPassTokens)
\* a passphrase of two words, longer than its mask has tokens
C13_Witness ==
    /\ GenPassDone
    /\ GenPassResolvable
    /\ engine = "EntropyAnalyzer"
    /\ Len(GenPassTokens) = 2
    /\ Len(ret.value) > 2

\* the places of the "?" characters of a template, in order
QuestionMarks(t) == SelectSeq([i \in 1..Len(t) |-> i], LAMBDA i : t[i] = "?")

\* the code that follows the n-th "?": the text up to the next "?" or the end
CodeAfter(t, n) ==
    LET q == QuestionMarks(t)
    IN  SubSeq(t, q[n] + 1, IF n < Len(q) THEN q[n + 1] - 1 ELSE Len(t))

\* the token sequence the template stands for: one token per "?"
TemplateTokens(t) ==
    [n \in 1..Len(QuestionMarks(t)) |->
        CASE CodeAfter(t, n) = <<"u">> -> t_upper
          [] CodeAfter(t, n) = <<"l">> -> t_lower
          [] CodeAfter(t, n) = <<"d">> -> t_digit
          [] CodeAfter(t, n) = <<"s">> -> t_punc
          [] OTHER -> t_anyc]

TemplateDone == pc = "done" /\ call.name = "template_to_mask"

\* C14 as stated: template_to_mask returns the tokens of the template, one
\* per "?", joined by single spaces, and parse_mask of the result is exactly
\* that token sequence, for every template.
C14_TranslationRoundTrips ==
    TemplateDone
    => /\ ret.type = "str"
       /\ ret.value = join(<<" ">>, TemplateTokens(call.template))
       /\ parse_mask(ret.value) = TemplateTokens(call.template)

\* C14, amended: template_to_mask returns the tokens of the template, one
\* per "?" in order (u upper, l lower, d digit, s punc, any other code anyc),
\* joined by single spaces, whatever precedes the first "?"; parse_mask of
\* the result is that token sequence when the template has at least one "?",
\* and the single empty token when it has none. "?l?l?d?d" gives
\* "lower lower digit digit".
C14_TranslationOfEachQuestionMark ==
    /\ template_to_mask(<<"?", "l", "?", "l", "?", "d", "?", "d">>)
          = join(<<" ">>, <<t_lower, t_lower, t_digit, t_digit>>)
    /\ TemplateDone
       => /\ ret.type = "str"
          /\ ret.value = join(<<" ">>, TemplateTokens(call.template))
          /\ parse_mask(ret.value) =
               IF Len(QuestionMarks(call.template)) > 0
               THEN TemplateTokens(call.template)
               ELSE << <<>> >>

\* a template with text before its first "?", a class code and another code
\* has been translated
C14_Witness ==
    /\ TemplateDone
    /\ call.template = <<"x", "?", "l", "?">>
    /\ ret.value = t_lower \o <<" ">> \o t_anyc
    /\ parse_mask(ret.value) = <<t_lower, t_anyc>>
\* the catalog is as the constructor left it
AsConstructed == engine = "EntropyAnalyzer" /\ hist.mutation = "none"

\* C15: after construction of the lexical engine every registry character of
\* class t in {lower, upper, punc, digit} is a catalog entry whose category
\* set is exactly {t, anyc}, plus letter exactly when t is lower or upper,
\* whatever the dictionary file held under that key; no entry has the
\* category any, and letter comes only with lower or upper.
C15_RegistryCharactersSeeded ==
    AsConstructed
    => /\ \A t \in {t_lower, t_upper, t_punc, t_digit} :
             \A i \in 1..Len(Get(PasswordPattern_init, t)) :
                LET c == Get(PasswordPattern_init, t)[i]
                IN  /\ Has(dict, c)
                    /\ get_pos(dict, c) =
                         {t, t_anyc} \cup
                         (IF t \in {t_lower, t_upper} THEN {t_letter} ELSE {})
       /\ \A i \in 1..Len(dict) :
             /\ t_any \notin get_pos(dict, dict[i][1])
             /\ t_letter \in get_pos(dict, dict[i][1])
                => get_pos(dict, dict[i][1]) \cap {t_lower, t_upper} # {}

\* the dictionary file held the registry character "a" as a noun; after
\* construction it is a lower-case letter only, and a resolution of noun has
\* not listed it
C15_Witness ==
    /\ AsConstructed
    /\ \E f \in DictFiles : Has(f, w_a) /\ get_pos(f, w_a) = {t_noun}
    /\ get_pos(dict, w_a) = {t_lower, t_anyc, t_letter}
    /\ Has(memoize, t_noun) /\ Len(Get(memoize, t_noun)) > 0
    /\ \A i \in 1..Len(Get(memoize, t_noun)) : Get(memoize, t_noun)[i] # w_a
\* no member of the list occurs twice
NoRepeat(l) == \A i, j \in 1..Len(l) : l[i] = l[j] => i = j

\* C16: in the registry of PasswordPattern the letter list is the lower list
\* followed by the upper list, the any list is the punc list followed by the
\* digit list followed by the letter list, and no member of either is
\* repeated.
C16_RegistryComposition ==
    engine = "PasswordPattern"
    => /\ Get(memoize, t_letter) = Get(memoize, t_lower) \o Get(memoize, t_upper)
       /\ Get(memoize, t_any) =
            Get(memoize, t_punc) \o Get(memoize, t_digit) \o Get(memoize, t_letter)
       /\ NoRepeat(Get(memoize, t_letter))
       /\ NoRepeat(Get(memoize, t_any))
       /\ Len(Get(memoize, t_any)) = 4 * CharsPerClass

\* an exhaustive search over the mask any on the character-only engine has
\* hashed the members of any in registry order: punc, digit, lower, upper
C16_Witness ==
    /\ engine = "PasswordPattern"
    /\ IterCrackDone /\ state = "Exhausted"
    /\ call.pos_mask = t_any
    /\ hashed = Get(memoize, t_any)
    /\ hashed = list(punctuation) \o list(digits) \o list(ascii_lowercase)
                   \o list(ascii_uppercase)
\* the cache c2 keeps every entry of the cache c1 as it was, and its further
\* entries are for tokens of the mask that c1 did not hold
OnlyAddsFor(c1, c2, tokens) ==
    /\ Len(c2) >= Len(c1)
    /\ \A i \in 1..Len(c1) : c2[i] = c1[i]
    /\ \A i \in (Len(c1) + 1)..Len(c2) :
          /\ ~Has(c1, c2[i][1])
          /\ \E j \in 1..Len(tokens) : tokens[j] = c2[i][1]

\* C17: no step of iter_crack, from its entry to its terminal state, changes
\* the target digests, the other arguments, the catalog or the engine class;
\* a step changes the cache only by adding entries for tokens of the mask
\* that were not cached, and leaves every entry that existed as it was.
C17_SearchOnlyAddsToCache ==
    [][(call'.name = "iter_crack" /\ (InIterCrack \/ pc = "idle"))
       => /\ dict' = dict
          /\ engine' = engine
          /\ InIterCrack => call' = call
          /\ OnlyAddsFor(memoize, memoize', parse_mask(call'.pos_mask))]_vars

\* a search over "noun any" has ended after three operations: noun was cached
\* before cat was inserted and is still without it, any was cached by the
\* search and holds cat
C17_Witness ==
    /\ IterCrackDone /\ nops = MaxOps
    /\ engine = "EntropyAnalyzer" /\ hist.mutation = "insert_word_to_dict"
    /\ call.pos_mask = t_noun \o <<" ">> \o t_any
    /\ Keys(memoize) = <<t_noun, t_any>>
    /\ Has(dict, w_cat) /\ t_noun \in get_pos(dict, w_cat)
    /\ \A i \in 1..Len(Get(memoize, t_noun)) : Get(memoize, t_noun)[i] # w_cat
    /\ \E i \in 1..Len(Get(memoize, t_any)) : Get(memoize, t_any)[i] = w_cat
\* C18: in set mode the count that iter_crack returns, in whatever terminal
\* state, never exceeds the number of digests in the target set.
C18_CountWithinTargetSet ==
    (IterCrackDone /\ call.sha1sum.type = "set" /\ ret.type = "int")
    => ret.value <= Cardinality(call.sha1sum.value)
\* the tokens template_to_mask can emit
EmittedTokens == {t_upper, t_lower, t_digit, t_punc, t_anyc}

\* the mask argument of the call
CallMask == IF call.name = "iter_crack" THEN call.pos_mask ELSE call.mask

\* C19: on the character-only engine every token of a translated template
\* resolves to a non-empty member list, and calculate_security, iter_crack
\* and gen_pass on a translated template end without a resolution fault.
C19_TranslatedTemplateResolves ==
    (/\ engine = "PasswordPattern"
     /\ pc = "done"
     /\ call.name \in {"calculate_security", "iter_crack", "gen_pass"}
     /\ \A i \in 1..Len(parse_mask(CallMask)) : parse_mask(CallMask)[i] \in EmittedTokens)
    => /\ \A i \in 1..Len(parse_mask(CallMask)) :
             /\ Has(memoize, parse_mask(CallMask)[i])
             /\ Len(Get(memoize, parse_mask(CallMask)[i])) > 0
       /\ ret.type = "exception" => ret.value \notin {"KeyError", "AttributeError"}
====